---- MODULE Spec2Model ----
(***************************************************************************)
(* Model of IlaParsers/I2c/ChipscopeI2cParse.py: I2cParser.Parse reads a   *)
(* CSV export of an ILA capture, finds the SCL and SDA columns by suffix   *)
(* match on the header, and decodes the sample rows one at a time into a   *)
(* list of I2cAccess objects.  I2cAccess.ToString renders one of them.     *)
(*                                                                         *)
(* Text is a sequence of one-character strings.  A file is a sequence of   *)
(* lines (f.readlines()), line 1 being the header.  I2cAccess objects live *)
(* in the heap objs and are referred to by their index: curAcc and the     *)
(* elements of accesses are references, so that aliasing between the open  *)
(* access and the returned list is part of the model.                      *)
(*                                                                         *)
(* The second part models BuildScripts/Vivado.py: BuildXpr clears the two  *)
(* slack fields, runs Vivado and scans vivado.log; the properties WNS and  *)
(* WHS read the fields.  A slack is kept in thousandths of a nanosecond.   *)
(***************************************************************************)
EXTENDS Integers, Sequences, FiniteSets

VARIABLES
    scl_name,   \* self.scl_name
    sda_name,   \* self.sda_name
    data,       \* the lines of the file, data[1] is the header
    pc,         \* "find" | "parse" | "returned" | "raised"
    exc,        \* the exception Parse ended with, "none" otherwise
    sclIdx,     \* 0-based column of SCL, -1 when not found
    sdaIdx,     \* 0-based column of SDA, -1 when not found
    pos,        \* index in data of the next line of the for loop
    scl_last,
    sda_last,
    accesses,   \* list of references into objs
    curBit,
    curByte,
    byteNr,
    state,      \* "Idle" | "Running"
    curAcc,     \* reference into objs, 0 while the local is unbound
    objs,       \* heap of I2cAccess objects
    result,     \* the list Parse returned, <<>> before it returns
    text,       \* the text of the last ToString call
    textOf,     \* the object reference that call was made on, 0 before
    textIgn,    \* the ignoreAck argument of that call
    wns,        \* self.wns, None or <<thousandths>>
    whs,        \* self.whs, None or <<thousandths>>
    criticalWarnings,
    errors,
    log,        \* the lines of vivado.log the last BuildXpr read
    call,       \* the last Vivado operation: "init" | "BuildXpr" | "WNS" | "WHS"
    ret,        \* what the last property read returned, None otherwise
    vexc        \* the exception that operation ended with, "none" otherwise

vars == <<scl_name, sda_name, data, pc, exc, sclIdx, sdaIdx, pos, scl_last,
          sda_last, accesses, curBit, curByte, byteNr, state, curAcc, objs,
          result, text, textOf, textIgn,
          wns, whs, criticalWarnings, errors, log, call, ret, vexc>>

parserVars == <<scl_name, sda_name, data, pc, exc, sclIdx, sdaIdx, pos,
                scl_last, sda_last, accesses, curBit, curByte, byteNr, state,
                curAcc, objs, result, text, textOf, textIgn>>

vivadoVars == <<wns, whs, criticalWarnings, errors, log, call, ret, vexc>>

----------------------------------------------------------------------------
(* Bounds of the checked input space                                       *)

MaxSegs == 3    \* segments per generated trace
MaxData == 2    \* data bytes per well-formed transaction
MaxLogLines == 2    \* lines per generated vivado.log, messages kept over the builds

----------------------------------------------------------------------------
(* Python str operations used by the parser                                *)

Whitespace == {" ", "\n", "\t", "\r"}

DigitChars == <<"0", "1", "2", "3", "4", "5", "6", "7", "8", "9">>

HexChars == <<"0", "1", "2", "3", "4", "5", "6", "7", "8", "9",
              "a", "b", "c", "d", "e", "f">>

RECURSIVE LStrip(_)
LStrip(s) ==
    IF s = <<>> THEN s
    ELSE IF Head(s) \in Whitespace THEN LStrip(Tail(s)) ELSE s

RECURSIVE RStrip(_)
RStrip(s) ==
    IF s = <<>> THEN s
    ELSE IF s[Len(s)] \in Whitespace THEN RStrip(SubSeq(s, 1, Len(s) - 1))
    ELSE s

\* str.strip()
Strip(s) == RStrip(LStrip(s))

\* str.startswith(pre)
StartsWith(s, pre) ==
    /\ Len(pre) <= Len(s)
    /\ SubSeq(s, 1, Len(pre)) = pre

\* str.endswith(suf)
EndsWith(s, suf) ==
    /\ Len(suf) <= Len(s)
    /\ SubSeq(s, Len(s) - Len(suf) + 1, Len(s)) = suf

\* str.split(c): the fields between the separators, empty ones included
RECURSIVE SplitAt(_, _)
SplitAt(s, c) ==
    IF \A i \in 1..Len(s) : s[i] # c THEN <<s>>
    ELSE LET i == CHOOSE k \in 1..Len(s) :
                      /\ s[k] = c
                      /\ \A j \in 1..(k - 1) : s[j] # c
         IN  <<SubSeq(s, 1, i - 1)>> \o SplitAt(SubSeq(s, i + 1, Len(s)), c)

\* str.split(",")
Split(s) == SplitAt(s, ",")

\* the texts int() accepts: an optional sign and at least one decimal digit
IsIntText(s) ==
    LET t    == Strip(s)
        body == IF t # <<>> /\ t[1] \in {"+", "-"} THEN Tail(t) ELSE t
    IN  /\ body # <<>>
        /\ \A i \in 1..Len(body) : \E d \in 1..10 : DigitChars[d] = body[i]

DigitVal(c) == (CHOOSE d \in 1..10 : DigitChars[d] = c) - 1

RECURSIVE DecVal(_)
DecVal(body) ==
    IF body = <<>> THEN 0
    ELSE 10 * DecVal(SubSeq(body, 1, Len(body) - 1)) + DigitVal(body[Len(body)])

\* int(s) for a text int() accepts
IntOf(s) ==
    LET t == Strip(s)
    IN  IF t[1] = "-" THEN 0 - DecVal(Tail(t))
        ELSE IF t[1] = "+" THEN DecVal(Tail(t))
        ELSE DecVal(t)

\* "{:x}".format(n), n >= 0
RECURSIVE Hex(_)
Hex(n) ==
    IF n < 16 THEN <<HexChars[n + 1]>>
    ELSE Hex(n \div 16) \o <<HexChars[(n % 16) + 1]>>

\* "{:02x}".format(n), n >= 0
Hex02(n) == IF n < 16 THEN <<"0">> \o Hex(n) ELSE Hex(n)

\* str.replace(old, ""): leftmost non-overlapping occurrences removed
RECURSIVE Remove(_, _)
Remove(s, old) ==
    IF Len(s) < Len(old) THEN s
    ELSE IF StartsWith(s, old) THEN Remove(SubSeq(s, Len(old) + 1, Len(s)), old)
    ELSE <<Head(s)>> \o Remove(Tail(s), old)

\* sep.join(list)
RECURSIVE Join(_, _)
Join(sep, list) ==
    IF list = <<>> THEN <<>>
    ELSE IF Len(list) = 1 THEN list[1]
    ELSE list[1] \o sep \o Join(sep, Tail(list))

----------------------------------------------------------------------------
(* class AccessType and class I2cAccess                                    *)

Write == 0
Read  == 1

\* one entry of _bus_transactions; its text is EventText(e)
Event(tag, value, op, ack) == [tag |-> tag, value |-> value, op |-> op, ack |-> ack]

\* I2cAccess.__init__
NewAccess ==
    [address |-> 0, access_type |-> Write, bus |-> <<>>, data |-> <<>>,
     addr_ack |-> FALSE, data_ack |-> <<>>]

\* I2cAccess._AckToStr
AckToStr(ack) == IF ack THEN <<"A", "C", "K">> ELSE <<"N", "A", "C", "K">>

\* _AddStart recording a REPEATED START
AddStart_AsRep(acc) == [acc EXCEPT !.bus = Append(@, Event("REPEATED START", 0, Write, FALSE))]

\* I2cAccess._AddStart
AddStart(acc) == [acc EXCEPT !.bus = Append(@, Event("START", 0, Write, FALSE))]

\* _AddRepStart recording a plain START
AddRepStart_AsStart(acc) == [acc EXCEPT !.bus = Append(@, Event("START", 0, Write, FALSE))]

\* _AddRepStart throwing away what the access has recorded so far
AddRepStart_Restart(acc) ==
    [NewAccess EXCEPT !.bus = <<Event("REPEATED START", 0, Write, FALSE)>>]

\* I2cAccess._AddRepStart
AddRepStart(acc) == [acc EXCEPT !.bus = Append(@, Event("REPEATED START", 0, Write, FALSE))]

\* I2cAccess._AddStop
AddStop(acc) == [acc EXCEPT !.bus = Append(@, Event("STOP", 0, Write, FALSE))]

\* _AddAddr without the update of addr_ack
AddAddr_NoAck(acc, addr, op, ack) ==
    [acc EXCEPT !.bus = Append(@, Event("ADDR", addr, op, ack)),
                !.address = addr,
                !.access_type = op]

\* I2cAccess._AddAddr
AddAddr(acc, addr, op, ack) ==
    [acc EXCEPT !.bus = Append(@, Event("ADDR", addr, op, ack)),
                !.address = addr,
                !.access_type = op,
                !.addr_ack = ack]

\* _AddData inserting the value at the front of the data list
AddData_Prepend(acc, value, ack) ==
    [acc EXCEPT !.data = <<value>> \o @,
                !.bus = Append(@, Event("DATA", value, Write, ack)),
                !.data_ack = Append(@, ack)]

\* I2cAccess._AddData
AddData(acc, value, ack) ==
    [acc EXCEPT !.data = Append(@, value),
                !.bus = Append(@, Event("DATA", value, Write, ack)),
                !.data_ack = Append(@, ack)]

\* the string the _Add* methods append for an event
EventText(e) ==
    IF e.tag = "START" THEN <<"S", "T", "A", "R", "T">>
    ELSE IF e.tag = "REPEATED START"
        THEN <<"R", "E", "P", "E", "A", "T", "E", "D", " ", "S", "T", "A", "R", "T">>
    ELSE IF e.tag = "STOP" THEN <<"S", "T", "O", "P">>
    ELSE IF e.tag = "ADDR"
        THEN <<"A", "D", "D", "R", ":", " ", "0", "x">> \o Hex(e.value) \o <<" ">>
             \o (IF e.op = Write THEN <<"W", "R">> ELSE <<"R", "D">>)
             \o <<" ">> \o AckToStr(e.ack)
    ELSE <<"D", "A", "T", "A", ":", " ", "0", "x">> \o Hex02(e.value) \o <<" ">>
         \o AckToStr(e.ack)

\* I2cAccess.__str__
Str(acc) == Join(<<"\n", " ", " ">>, [i \in 1..Len(acc.bus) |-> EventText(acc.bus[i])])

\* ToString stripping the NACK tokens only
ToString_OnlyNack(acc, ignoreAck) ==
    IF ignoreAck THEN Remove(Str(acc), <<"N", "A", "C", "K">>) ELSE Str(acc)

\* I2cAccess.ToString
ToString(acc, ignoreAck) ==
    IF ignoreAck
    THEN Remove(Remove(Str(acc), <<"N", "A", "C", "K">>), <<"A", "C", "K">>)
    ELSE Str(acc)

----------------------------------------------------------------------------
(* I2cParser.Parse: column lookup                                          *)

\* the lookup with the indexes starting at 0 instead of -1
FindIdx_FromZero(titles, name) ==
    LET hits == {i \in 1..Len(titles) : EndsWith(Strip(titles[i]), name)}
    IN  IF hits = {} THEN 0
        ELSE (CHOOSE i \in hits : \A j \in hits : j <= i) - 1

\* the lookup stopping at the first field that ends with the name
FindIdx_First(titles, name) ==
    LET hits == {i \in 1..Len(titles) : EndsWith(Strip(titles[i]), name)}
    IN  IF hits = {} THEN -1
        ELSE (CHOOSE i \in hits : \A j \in hits : i <= j) - 1

\* the for loop over the header fields: the last field that ends with the
\* name gives the index, -1 remains when none does
FindIdx(titles, name) ==
    LET hits == {i \in 1..Len(titles) : EndsWith(Strip(titles[i]), name)}
    IN  IF hits = {} THEN -1
        ELSE (CHOOSE i \in hits : \A j \in hits : j <= i) - 1

\* the exception swallowed and the loop going on with the next line
Raise_Skip(e) ==
    /\ pos' = pos + 1
    /\ UNCHANGED <<scl_name, sda_name, data, pc, exc, sclIdx, sdaIdx, scl_last,
                   sda_last, accesses, curBit, curByte, byteNr, state, curAcc,
                   objs, result, text, textOf, textIgn>>

\* leaving Parse by an exception: nothing is returned
Raise(e) ==
    /\ pc' = "raised"
    /\ exc' = e
    /\ UNCHANGED <<scl_name, sda_name, data, sclIdx, sdaIdx, pos, scl_last,
                   sda_last, accesses, curBit, curByte, byteNr, state, curAcc,
                   objs, result, text, textOf, textIgn>>

\* Parse up to the for loop over the sample lines
FindIndexes ==
    /\ pc = "find"
    /\ UNCHANGED vivadoVars
    /\ IF data = <<>> THEN Raise("IndexError")
       ELSE LET titles == Split(data[1])
                ci     == FindIdx(titles, scl_name)
                di     == FindIdx(titles, sda_name)
            IN  /\ sclIdx' = ci
                /\ sdaIdx' = di
                /\ IF ci = -1
                   THEN pc' = "raised" /\ exc' = "SCL signal name not found"
                   ELSE IF di = -1
                   THEN pc' = "raised" /\ exc' = "SDA signal name not found"
                   ELSE pc' = "parse" /\ exc' = "none"
                /\ scl_last' = 0
                /\ sda_last' = 1
                /\ accesses' = <<>>
                /\ curBit' = 0
                /\ curByte' = 0
                /\ byteNr' = 0
                /\ state' = "Idle"
                /\ pos' = 2
                /\ UNCHANGED <<scl_name, sda_name, data, curAcc, objs, result,
                               text, textOf, textIgn>>

----------------------------------------------------------------------------
(* I2cParser.Parse: one iteration of the for loop                          *)

Radix == <<"R", "a", "d", "i", "x">>

\* "Start Condition"
IsStartCond(scl, sda, sdaLast) == scl = 1 /\ sda = 0 /\ sdaLast = 1

\* the stop condition without the test of the previous data level
IsStopCond_Level(scl, sda, sdaLast) == scl = 1 /\ sda = 1

\* "Stop Condition"
IsStopCond(scl, sda, sdaLast) == scl = 1 /\ sda = 1 /\ sdaLast = 0

\* "Rising Edge"
IsRisingEdge(scl, sclLast) == scl = 1 /\ sclLast = 0

\* ack = not sda
AckOf(sda) == sda = 0

\* addr = curByte >> 1
AddrOf(byte) == byte \div 2

\* the direction bit read the wrong way round
AccTypeOf_Swapped(byte) == IF byte % 2 = 0 THEN Read ELSE Write

\* rnw = curByte % 2, mapped to the access type
AccTypeOf(byte) == IF byte % 2 = 0 THEN Write ELSE Read

\* the new bit added before the shift
ShiftIn_AddFirst(byte, sda) == (byte + sda) * 2

\* curByte = curByte * 2 + sda
ShiftIn(byte, sda) == byte * 2 + sda

\* the Start of a new transaction written into the object curAcc refers to
StartAccess_Reuse(heap, cur) ==
    IF cur = 0
    THEN [heap |-> Append(heap, AddStart(NewAccess)), ref |-> Len(heap) + 1]
    ELSE [heap |-> [heap EXCEPT ![cur] = AddStart(@)], ref |-> cur]

\* the new object created but never bound to curAcc
StartAccess_NoBind(heap, cur) ==
    [heap |-> Append(heap, AddStart(NewAccess)), ref |-> cur]

\* curAcc = I2cAccess(); curAcc._AddStart(): a fresh object on the heap,
\* whatever curAcc referred to before, and the reference to it
StartAccess(heap, cur) ==
    [heap |-> Append(heap, AddStart(NewAccess)), ref |-> Len(heap) + 1]

\* sda_last taking the clock level
LastLevels_SclTwice(scl, sda) == <<scl, scl>>

\* scl_last = scl; sda_last = sda
LastLevels(scl, sda) == <<scl, sda>>

\* the reset after a Start that leaves the accumulator as it is
ResetCounters_KeepByte(bit, byte, nr) == [byteNr |-> 0, curBit |-> 0, curByte |-> byte]

\* byteNr = 0; curBit = 0; curByte = 0x00 after a Start or repeated Start
ResetCounters(bit, byte, nr) == [byteNr |-> 0, curBit |-> 0, curByte |-> 0]

\* the address test passing for the first two bytes
IsAddrByte_FirstTwo(nr) == nr <= 1

\* `if byteNr is 0`: the byte just completed is the address byte
IsAddrByte(nr) == nr = 0

\* the branches of the loop body that use the local curAcc
UsesCurAcc(scl, sda) ==
    IF IsStartCond(scl, sda, sda_last) THEN state # "Idle"
    ELSE IF IsStopCond(scl, sda, sda_last) THEN state = "Running"
    ELSE IF IsRisingEdge(scl, scl_last) THEN state = "Running" /\ curBit = 8
    ELSE FALSE

\* the if/elif chain on one sample, and the update of scl_last and sda_last
DecodeSample(scl, sda) ==
    /\ IF IsStartCond(scl, sda, sda_last) THEN
            /\ IF state = "Idle"
               THEN /\ objs' = StartAccess(objs, curAcc).heap
                    /\ curAcc' = StartAccess(objs, curAcc).ref
                    /\ state' = "Running"
               ELSE /\ objs' = [objs EXCEPT ![curAcc] = AddRepStart(@)]
                    /\ UNCHANGED <<curAcc, state>>
            /\ byteNr' = ResetCounters(curBit, curByte, byteNr).byteNr
            /\ curBit' = ResetCounters(curBit, curByte, byteNr).curBit
            /\ curByte' = ResetCounters(curBit, curByte, byteNr).curByte
            /\ UNCHANGED accesses
       ELSE IF IsStopCond(scl, sda, sda_last) THEN
            IF state = "Running"
            THEN /\ objs' = [objs EXCEPT ![curAcc] = AddStop(@)]
                 /\ accesses' = Append(accesses, curAcc)
                 /\ state' = "Idle"
                 /\ UNCHANGED <<curAcc, byteNr, curBit, curByte>>
            ELSE UNCHANGED <<objs, accesses, state, curAcc, byteNr, curBit, curByte>>
       ELSE IF IsRisingEdge(scl, scl_last) /\ state = "Running" THEN
            IF curBit = 8
            THEN /\ objs' = [objs EXCEPT ![curAcc] =
                                IF IsAddrByte(byteNr)
                                THEN AddAddr(@, AddrOf(curByte), AccTypeOf(curByte), AckOf(sda))
                                ELSE AddData(@, curByte, AckOf(sda))]
                 /\ curBit' = 0
                 /\ curByte' = 0
                 /\ byteNr' = byteNr + 1
                 /\ UNCHANGED <<accesses, state, curAcc>>
            ELSE /\ curByte' = ShiftIn(curByte, sda)
                 /\ curBit' = curBit + 1
                 /\ UNCHANGED <<objs, accesses, state, curAcc, byteNr>>
       ELSE UNCHANGED <<objs, accesses, state, curAcc, byteNr, curBit, curByte>>
    /\ scl_last' = LastLevels(scl, sda)[1]
    /\ sda_last' = LastLevels(scl, sda)[2]
    /\ pos' = pos + 1
    /\ UNCHANGED <<scl_name, sda_name, data, pc, exc, sclIdx, sdaIdx, result,
                   text, textOf, textIgn>>

\* a radix line taken for a sample of the idle bus
SkipLine_AsIdle ==
    /\ pos' = pos + 1
    /\ scl_last' = 0
    /\ sda_last' = 1
    /\ UNCHANGED <<scl_name, sda_name, data, pc, exc, sclIdx, sdaIdx,
                   accesses, curBit, curByte, byteNr, state, curAcc,
                   objs, result, text, textOf, textIgn>>

\* `continue` on a radix line
SkipLine ==
    /\ pos' = pos + 1
    /\ UNCHANGED <<scl_name, sda_name, data, pc, exc, sclIdx, sdaIdx, scl_last,
                   sda_last, accesses, curBit, curByte, byteNr, state, curAcc,
                   objs, result, text, textOf, textIgn>>

\* the line the loop is at is skipped as a radix line
IsRadixLine(line) == StartsWith(line, Radix)

\* one iteration of `for nr, line in enumerate(data[1:])`
ParseLine ==
    /\ pc = "parse"
    /\ pos <= Len(data)
    /\ UNCHANGED vivadoVars
    /\ LET line  == data[pos]
           parts == Split(line)
       IN  IF IsRadixLine(line) THEN SkipLine
           ELSE IF sclIdx >= Len(parts) THEN Raise("IndexError")
           ELSE IF ~IsIntText(Strip(parts[sclIdx + 1])) THEN Raise("ValueError")
           ELSE IF sdaIdx >= Len(parts) THEN Raise("IndexError")
           ELSE IF ~IsIntText(Strip(parts[sdaIdx + 1])) THEN Raise("ValueError")
           ELSE LET scl == IntOf(Strip(parts[sclIdx + 1]))
                    sda == IntOf(Strip(parts[sdaIdx + 1]))
                IN  IF UsesCurAcc(scl, sda) /\ curAcc = 0
                    THEN Raise("UnboundLocalError")
                    ELSE DecodeSample(scl, sda)

\* `return accesses` once the loop is exhausted
Return ==
    /\ pc = "parse"
    /\ pos > Len(data)
    /\ pc' = "returned"
    /\ result' = accesses
    /\ UNCHANGED vivadoVars
    /\ UNCHANGED <<scl_name, sda_name, data, exc, sclIdx, sdaIdx, pos, scl_last,
                   sda_last, accesses, curBit, curByte, byteNr, state, curAcc,
                   objs, text, textOf, textIgn>>

\* a caller renders one of the returned accesses (Example.py prints them)
Render ==
    /\ pc = "returned"
    /\ \E i \in 1..Len(result), ig \in BOOLEAN :
          /\ text' = ToString(objs[result[i]], ig)
          /\ textOf' = result[i]
          /\ textIgn' = ig
    /\ UNCHANGED <<scl_name, sda_name, data, pc, exc, sclIdx, sdaIdx, pos,
                   scl_last, sda_last, accesses, curBit, curByte, byteNr, state,
                   curAcc, objs, result>>
    /\ UNCHANGED vivadoVars

----------------------------------------------------------------------------
(* BuildScripts/Vivado.py: BuildXpr and the slack properties               *)

None == <<>>

\* the texts float() accepts, decimal notation only (the logs below use no
\* exponent, inf or nan): an optional sign, digits with at most one point,
\* at least one digit
IsFloatText(s) ==
    LET t    == Strip(s)
        body == IF t # <<>> /\ t[1] \in {"+", "-"} THEN Tail(t) ELSE t
        dots == {i \in 1..Len(body) : body[i] = "."}
    IN  /\ Cardinality(dots) <= 1
        /\ Cardinality(dots) < Len(body)
        /\ \A i \in (1..Len(body)) \ dots : \E d \in 1..10 : DigitChars[d] = body[i]

\* float(s) in thousandths, for a text float() accepts with at most three
\* digits after the point
FloatOf(s) ==
    LET t     == Strip(s)
        neg   == t[1] = "-"
        body  == IF t[1] \in {"+", "-"} THEN Tail(t) ELSE t
        parts == SplitAt(body, ".")
        frac  == IF Len(parts) > 1 THEN parts[2] ELSE <<>>
        mag   == 1000 * DecVal(parts[1]) + DecVal(SubSeq(frac \o <<"0", "0", "0">>, 1, 3))
    IN  IF neg THEN 0 - mag ELSE mag

CriticalWarningPrefix == <<"C", "R", "I", "T", "I", "C", "A", "L", " ", "W", "A", "R", "N", "I", "N", "G", ":">>
ErrorPrefix == <<"E", "R", "R", "O", "R", ":">>
WnsPrefix == <<"R", "E", "S", "U", "L", "T", "-", "W", "N", "S", ":">>
WhsPrefix == <<"R", "E", "S", "U", "L", "T", "-", "W", "H", "S", ":">>

\* line.split(":")[1].strip()
ResultField(line) == Strip(SplitAt(line, ":")[2])

\* the four ifs of the loop body on one line; self is the record of the
\* fields the loop assigns
ScanLine(self, line) ==
    LET s1 == IF StartsWith(line, CriticalWarningPrefix)
              THEN [self EXCEPT !.criticalWarnings = Append(@, line)]
              ELSE self
        s2 == IF StartsWith(line, ErrorPrefix)
              THEN [s1 EXCEPT !.errors = Append(@, line)]
              ELSE s1
        s3 == IF StartsWith(line, WnsPrefix)
              THEN IF IsFloatText(ResultField(line))
                   THEN [s2 EXCEPT !.wns = <<FloatOf(ResultField(line))>>]
                   ELSE [s2 EXCEPT !.wns = None]
              ELSE s2
    IN  IF StartsWith(line, WhsPrefix)
        THEN IF IsFloatText(ResultField(line))
             THEN [s3 EXCEPT !.whs = <<FloatOf(ResultField(line))>>]
             ELSE [s3 EXCEPT !.wns = None]
        ELSE s3

\* `for line in f.readlines()`
RECURSIVE ScanLog(_, _)
ScanLog(self, lines) ==
    IF lines = <<>> THEN self
    ELSE ScanLog(ScanLine(self, Head(lines)), Tail(lines))

\* the exception _RunVivado ends with, "none" when it returns
RunVivado(run) ==
    IF run.platform \notin {"win", "linux"} THEN "OS Not Supported"
    ELSE IF ~run.stderrEmpty THEN "STDERR not empty"
    ELSE IF run.exitCode # 0 THEN "Command exited with code"
    ELSE "none"

\* the Vivado runs a build can meet
Runs ==
    { [platform |-> "linux", stderrEmpty |-> TRUE,  exitCode |-> 0],
      [platform |-> "linux", stderrEmpty |-> FALSE, exitCode |-> 0],
      [platform |-> "linux", stderrEmpty |-> TRUE,  exitCode |-> 1],
      [platform |-> "other", stderrEmpty |-> TRUE,  exitCode |-> 0] }

\* lines of a vivado.log
LineLib ==
    { <<"R", "E", "S", "U", "L", "T", "-", "W", "N", "S", ":", " ", "1", ".", "5", "\n">>,
      <<"R", "E", "S", "U", "L", "T", "-", "W", "N", "S", ":", " ", "\n">>,
      <<"R", "E", "S", "U", "L", "T", "-", "W", "H", "S", ":", " ", "-", "0", ".", "2", "5", "\n">>,
      <<"R", "E", "S", "U", "L", "T", "-", "W", "H", "S", ":", " ", "\n">>,
      <<"E", "R", "R", "O", "R", ":", " ", "e", "\n">>,
      <<"C", "R", "I", "T", "I", "C", "A", "L", " ", "W", "A", "R", "N", "I", "N", "G", ":", " ", "c", "\n">> }

Logs == UNION { [1..n -> LineLib] : n \in 0..MaxLogLines }

\* Vivado.BuildXpr: clear the slacks, run Vivado, scan the log it wrote
BuildXpr ==
    \E run \in Runs :
       /\ call' = "BuildXpr"
       /\ ret' = None
       /\ IF RunVivado(run) # "none"
          THEN /\ wns' = None
               /\ whs' = None
               /\ log' = <<>>
               /\ vexc' = RunVivado(run)
               /\ UNCHANGED <<criticalWarnings, errors>>
          ELSE \E lg \in Logs :
                  LET self == ScanLog([wns |-> None, whs |-> None,
                                       criticalWarnings |-> criticalWarnings,
                                       errors |-> errors], lg)
                  IN  /\ Len(self.criticalWarnings) + Len(self.errors) <= MaxLogLines
                      /\ wns' = self.wns
                      /\ whs' = self.whs
                      /\ criticalWarnings' = self.criticalWarnings
                      /\ errors' = self.errors
                      /\ log' = lg
                      /\ vexc' = "none"
       /\ UNCHANGED parserVars

\* the property Vivado.WNS
ReadWNS ==
    /\ call' = "WNS"
    /\ IF wns = None
       THEN ret' = None /\ vexc' = "Compilation not complete, WNS not available"
       ELSE ret' = wns /\ vexc' = "none"
    /\ UNCHANGED <<wns, whs, criticalWarnings, errors, log>>
    /\ UNCHANGED parserVars

\* the property Vivado.WHS
ReadWHS ==
    /\ call' = "WHS"
    /\ IF whs = None
       THEN ret' = None /\ vexc' = "Compilation not complete, WHS not available"
       ELSE ret' = whs /\ vexc' = "none"
    /\ UNCHANGED <<wns, whs, criticalWarnings, errors, log>>
    /\ UNCHANGED parserVars

\* Vivado.__init__
VivadoInit ==
    /\ wns = None
    /\ whs = None
    /\ criticalWarnings = <<>>
    /\ errors = <<>>
    /\ log = <<>>
    /\ call = "init"
    /\ ret = None
    /\ vexc = "none"

----------------------------------------------------------------------------
(* The captures Parse is run on: CSV text of edge-only ILA recordings      *)

\* a sample line with the two levels in columns 0 and 1
Row(c, d) == <<DigitChars[c + 1], ",", DigitChars[d + 1], "\n">>

\* header "i/scl,i/sda": hierarchical prefixes, SCL in column 0
StdHeader == <<"i", "/", "s", "c", "l", ",", "i", "/", "s", "d", "a", "\n">>

SclName == <<"s", "c", "l">>
SdaName == <<"s", "d", "a">>

RECURSIVE Concat(_)
Concat(ss) == IF ss = <<>> THEN <<>> ELSE Head(ss) \o Concat(Tail(ss))

\* SDA falls while SCL is high (after SDA was released with SCL low)
StartSeg == <<Row(0, 1), Row(1, 1), Row(1, 0)>>

\* SDA rises while SCL is high (after SDA was pulled low with SCL low)
StopSeg == <<Row(0, 0), Row(1, 0), Row(1, 1)>>

\* bit i (1 = first on the wire) of a byte sent MSB first
BitOf(v, i) == (v \div (2 ^ (8 - i))) % 2

\* eight data bits and the acknowledge bit, each set up with SCL low and
\* then clocked by a rising SCL edge; ackLevel 0 is ACK
ByteSeg(v, ackLevel) ==
    Concat([i \in 1..8 |-> <<Row(0, BitOf(v, i)), Row(1, BitOf(v, i))>>])
    \o <<Row(0, ackLevel), Row(1, ackLevel)>>

\* the building blocks of the generated traces: framing, bytes, single
\* samples at every pair of levels, a radix line and a line with a field
\* that is no integer
SegLib ==
    {StartSeg, StopSeg, ByteSeg(76, 0), ByteSeg(85, 1)}
    \cup {<<Row(c, d)>> : c \in {0, 1}, d \in {0, 1}}
    \cup {<<Radix \o <<",", "1", "\n">> >>,
          <<<<"x", ",", "1", "\n">>>>}

\* traces of up to MaxSegs building blocks in any order
SegTraces ==
    UNION {{Concat(f) : f \in [1..n -> SegLib]} : n \in 0..MaxSegs}

\* every address byte, with ACK and NACK, in a transaction of its own
AddrTraces ==
    {StartSeg \o ByteSeg(b, a) \o StopSeg : b \in 0..255, a \in {0, 1}}

\* every address byte, with ACK and NACK, followed by the data byte 0x55
\* with NACK
AddrDataTraces ==
    {StartSeg \o ByteSeg(b, a) \o ByteSeg(85, 1) \o StopSeg :
        b \in 0..255, a \in {0, 1}}

\* every data byte, with ACK and NACK, after the address byte of 0x26 write
DataTraces ==
    {StartSeg \o ByteSeg(76, 0) \o ByteSeg(v, a) \o StopSeg :
        v \in 0..255, a \in {0, 1}}

\* the (value, ack level) pairs the longer transactions draw their bytes from
ByteChoices == {<<85, 0>>, <<85, 1>>, <<170, 0>>, <<3, 1>>}

\* the byte segments of a list of (value, ack level) pairs
Bytes(bs) == Concat([i \in 1..Len(bs) |-> ByteSeg(bs[i][1], bs[i][2])])

\* Start, address byte, k <= MaxData data bytes, Stop
WellFormedTraces ==
    {StartSeg \o ByteSeg(ab[1], ab[2]) \o Bytes(bs) \o StopSeg :
        ab \in {<<76, 0>>, <<77, 1>>},
        bs \in UNION {[1..k -> ByteChoices] : k \in 0..MaxData}}

\* the same with a repeated start, a second address byte and up to one more
\* data byte before the Stop
RepStartTraces ==
    {StartSeg \o ByteSeg(76, 0) \o Bytes(bs) \o StartSeg \o ByteSeg(77, a)
        \o Bytes(cs) \o StopSeg :
        bs \in UNION {[1..k -> {<<85, 0>>, <<3, 1>>}] : k \in 0..MaxData},
        a \in {0, 1},
        cs \in UNION {[1..k -> {<<170, 1>>}] : k \in 0..1}}

\* two transactions, one after the other, on the same bus
TwoTraces ==
    {StartSeg \o ByteSeg(76, 0) \o Bytes(bs) \o StopSeg
        \o StartSeg \o ByteSeg(77, 0) \o Bytes(cs) \o StopSeg :
        bs \in UNION {[1..k -> {<<85, 0>>}] : k \in 0..MaxData},
        cs \in UNION {[1..k -> {<<170, 1>>}] : k \in 0..1}}

\* a Start or a Stop condition on a sample that is a rising clock edge as
\* well, after n bits of a byte (n = 8: at the edge of its ack bit), and a
\* complete transaction after it
EdgeTraces ==
    {StartSeg \o SubSeq(ByteSeg(v, 0), 1, 2 * n) \o e \o ByteSeg(77, 1) \o StopSeg :
        v \in {76, 255}, n \in 0..8,
        e \in {<<Row(0, 1), Row(1, 0)>>,
                <<Row(0, 0), Row(1, 1), Row(1, 0)>>}}

\* lines that are no plain 0/1 sample lines: levels other than 0 and 1,
\* blanks around the fields, a sign, a missing or empty field, text
OddLines ==
    {Row(2, 0), Row(2, 1), Row(1, 2), Row(0, 2), Row(2, 2),
     <<" ", "1", " ", ",", " ", "0", "\n">>,
     <<"+", "1", ",", "0", "1", "\n">>,
     <<"1", ",", "\n">>,
     <<"1", "\n">>,
     <<"1", ",", "1", ".", "0", "\n">>,
     <<" ", "R", "a", "d", "i", "x", ",", "1", "\n">>,
     <<"R", "a", "d", "i", "x", "\n">>}

\* such a line at every stage of a transaction: before the Start, right
\* after it, after the address byte, with the ack bit of a byte pending
OddTraces ==
    {pre \o <<l>> \o post :
        pre \in {<<>>, StartSeg, StartSeg \o ByteSeg(76, 0),
                 StartSeg \o SubSeq(ByteSeg(76, 0), 1, 16) \o <<Row(0, 0)>>,
                 StartSeg \o ByteSeg(76, 0) \o StopSeg},
        l \in OddLines,
        post \in {<<>>, StopSeg, <<Row(1, 0)>> \o ByteSeg(85, 1) \o StopSeg}}

\* headers for the column lookup: column order, surrounding blanks, a
\* leading index column, several columns ending with a name, a missing name
Headers ==
    {StdHeader,
     <<"s", "d", "a", ",", "s", "c", "l", "\n">>,
     <<"n", ",", " ", "s", "c", "l", " ", ",", "s", "d", "a", "\n">>,
     <<"s", "c", "l", ",", "s", "d", "a", ",", "x", "s", "c", "l", "\n">>,
     <<"s", "c", "l", ",", "s", "d", "a", "x", "\n">>,
     <<"s", "c", "k", ",", "s", "d", "a", "\n">>,
     <<"n", ",", "m", "\n">>}

\* sample lines of three columns for those headers
Row3(a, b, c) == <<DigitChars[a + 1], ",", DigitChars[b + 1], ",", DigitChars[c + 1], "\n">>

HeaderTraces ==
    {<<>>,
     <<Row3(1, 0, 1), Row3(1, 1, 0), Row3(0, 1, 1)>>,
     <<Row3(0, 1, 0), Row3(1, 0, 1), Row3(1, 1, 1)>>,
     <<Row3(1, 1, 1), Row(1, 0), Row3(0, 1, 1)>>,
     <<Row3(1, 1, 0), <<"1", ",", "0", ",", "x", "\n">>, Row3(1, 1, 1)>>}

\* the files: header and sample lines, and the file without any line
Files ==
    {<<StdHeader>> \o t :
        t \in SegTraces \cup AddrTraces \cup AddrDataTraces \cup DataTraces
              \cup WellFormedTraces \cup RepStartTraces \cup TwoTraces
              \cup OddTraces \cup EdgeTraces}
    \cup {<<h>> \o t : h \in Headers, t \in HeaderTraces}
    \cup {<<>>}

----------------------------------------------------------------------------
(* The state machine                                                       *)

ParserInit ==
    /\ scl_name = SclName
    /\ sda_name = SdaName
    /\ data \in Files
    /\ pc = "find"
    /\ exc = "none"
    /\ sclIdx = -1
    /\ sdaIdx = -1
    /\ pos = 2
    /\ scl_last = 0
    /\ sda_last = 1
    /\ accesses = <<>>
    /\ curBit = 0
    /\ curByte = 0
    /\ byteNr = 0
    /\ state = "Idle"
    /\ curAcc = 0
    /\ objs = <<>>
    /\ result = <<>>
    /\ text = <<>>
    /\ textOf = 0
    /\ textIgn = FALSE

Init == ParserInit /\ VivadoInit

Next == FindIndexes \/ ParseLine \/ Return \/ Render

Spec == Init /\ [][Next]_vars

\* a Vivado object on its own: builds and slack reads in any order
InitVivado == ParserInit /\ data = <<>> /\ VivadoInit

NextVivado == BuildXpr \/ ReadWNS \/ ReadWHS

SpecVivado == InitVivado /\ [][NextVivado]_vars

----------------------------------------------------------------------------
(* Reading a file the way the properties below speak about it              *)

\* the sample lines of the file, in order (the header left out)
Rows == Tail(data)

\* line i of the file is a line the loop does not skip
IsSampleLine(i) == ~StartsWith(data[i], Radix)

\* the selected fields of line i both exist and read as integers
HasLevels(i) ==
    LET parts == Split(data[i])
    IN  /\ sclIdx + 1 \in 1..Len(parts)
        /\ sdaIdx + 1 \in 1..Len(parts)
        /\ IsIntText(parts[sclIdx + 1])
        /\ IsIntText(parts[sdaIdx + 1])

SclAt(i) == IntOf(Split(data[i])[sclIdx + 1])
SdaAt(i) == IntOf(Split(data[i])[sdaIdx + 1])

\* the data level before line i: that of the nearest sample line above it,
\* idle-high when there is none
PrevSdaAt(i) ==
    LET above == {j \in 2..(i - 1) : IsSampleLine(j)}
    IN  IF above = {} THEN 1
        ELSE SdaAt(CHOOSE j \in above : \A k \in above : k <= j)

\* the loop is about to decode line pos as a sample
AtSample ==
    /\ pc = "parse"
    /\ pos <= Len(data)
    /\ IsSampleLine(pos)
    /\ HasLevels(pos)

\* rows is Start, n >= 1 bytes of 8 bits and an ack bit, Stop, each bit set
\* up with the clock low and held over the rising clock edge
IsWellFormed(rows) ==
    /\ Len(rows) >= 24
    /\ (Len(rows) - 6) % 18 = 0
    /\ SubSeq(rows, 1, 3) = StartSeg
    /\ SubSeq(rows, Len(rows) - 2, Len(rows)) = StopSeg
    /\ \A m \in 1..((Len(rows) - 6) \div 2) :
          \E b \in {0, 1} : /\ rows[3 + 2 * m - 1] = Row(0, b)
                            /\ rows[3 + 2 * m] = Row(1, b)

\* the number of bytes of a well-formed trace, the address byte included
NumBytes(rows) == (Len(rows) - 6) \div 18

\* the level of bit i (1..8 data, 9 ack) of byte j on the wire
WireBit(rows, j, i) == IF rows[3 + 18 * (j - 1) + 2 * i] = Row(1, 1) THEN 1 ELSE 0

\* the value of byte j on the wire, first bit most significant
WireByte(rows, j) ==
    128 * WireBit(rows, j, 1) + 64 * WireBit(rows, j, 2)
    + 32 * WireBit(rows, j, 3) + 16 * WireBit(rows, j, 4)
    + 8 * WireBit(rows, j, 5) + 4 * WireBit(rows, j, 6)
    + 2 * WireBit(rows, j, 7) + WireBit(rows, j, 8)

\* the file of the round trip: Start, address a with direction d and ack
\* level aa, data byte v with ack level da, Stop
Encode(a, d, aa, v, da) ==
    <<StdHeader>> \o StartSeg \o ByteSeg(2 * a + d, aa) \o ByteSeg(v, da) \o StopSeg

----------------------------------------------------------------------------
(* C1 - C5                                                                 *)

\* C1: for a well-formed trace Start, address byte, k data bytes, Stop, Parse
\* does not fail and returns exactly one access whose data list holds the k
\* byte values in capture order and whose data_ack list holds their k ack
\* flags.
C1_DataInCaptureOrder ==
    (data # <<>> /\ data[1] = StdHeader /\ IsWellFormed(Rows)) =>
        /\ pc # "raised"
        /\ pc = "returned" =>
              /\ Len(result) = 1
              /\ LET acc == objs[result[1]]
                     k   == NumBytes(Rows) - 1
                 IN  /\ Len(acc.data) = k
                     /\ Len(acc.data_ack) = k
                     /\ \A j \in 1..k :
                           /\ acc.data[j] = WireByte(Rows, j + 1)
                           /\ acc.data_ack[j] = (WireBit(Rows, j + 1, 9) = 0)

\* a well-formed trace with two different data bytes has been decoded
C1_Witness ==
    /\ pc = "returned"
    /\ data[1] = StdHeader
    /\ IsWellFormed(Rows)
    /\ NumBytes(Rows) = 3
    /\ Len(result) = 1
    /\ objs[result[1]].data = <<85, 170>>
    /\ objs[result[1]].data_ack = <<FALSE, TRUE>>

\* C2: the file that encodes address a, direction d, an address ack, data
\* byte v and a data ack, MSB first and framed by Start and Stop, decodes to
\* one access with that address, Write iff d = 0, that address ack, data
\* <<v>> and that data ack.
C2_RoundTrip ==
    (pc = "returned" /\ data[1] = StdHeader /\ IsWellFormed(Rows)
        /\ NumBytes(Rows) = 2) =>
        LET a  == WireByte(Rows, 1) \div 2
            d  == WireByte(Rows, 1) % 2
            aa == WireBit(Rows, 1, 9)
            v  == WireByte(Rows, 2)
            da == WireBit(Rows, 2, 9)
        IN  data = Encode(a, d, aa, v, da) =>
               /\ Len(result) = 1
               /\ objs[result[1]].address = a
               /\ (objs[result[1]].access_type = Write) <=> (d = 0)
               /\ objs[result[1]].access_type \in {Write, Read}
               /\ objs[result[1]].addr_ack = (aa = 0)
               /\ objs[result[1]].data = <<v>>
               /\ objs[result[1]].data_ack = <<da = 0>>

\* address 0x26 write with ACK and data 0x55 with NACK has been decoded
C2_Witness ==
    /\ pc = "returned"
    /\ data = Encode(38, 0, 0, 85, 1)
    /\ Len(result) = 1
    /\ objs[result[1]].address = 38
    /\ objs[result[1]].access_type = Write
    /\ objs[result[1]].addr_ack = TRUE
    /\ objs[result[1]].data = <<85>>
    /\ objs[result[1]].data_ack = <<FALSE>>

\* C3: a Start condition met while Running appends a RepeatedStart event to
\* the current access, leaves every other object, the output list and the
\* current reference as they are and keeps the decoder Running with bit
\* count, accumulator and byte index at 0; and the byte completed next after
\* a RepeatedStart is appended to that same access as an address phase.
C3_RepeatedStart ==
    [][ /\ (AtSample /\ state = "Running" /\ SclAt(pos) = 1 /\ SdaAt(pos) = 0
                /\ sda_last = 1) =>
              /\ Len(objs') = Len(objs)
              /\ \A r \in 1..Len(objs) : r # curAcc => objs'[r] = objs[r]
              /\ objs'[curAcc] =
                    [objs[curAcc] EXCEPT
                        !.bus = Append(@, Event("REPEATED START", 0, Write, FALSE))]
              /\ accesses' = accesses
              /\ curAcc' = curAcc
              /\ state' = "Running"
              /\ pc' = "parse"
              /\ byteNr' = 0 /\ curBit' = 0 /\ curByte' = 0
        /\ (AtSample /\ state = "Running" /\ SclAt(pos) = 1 /\ scl_last = 0
                /\ SdaAt(pos) = sda_last /\ SdaAt(pos) \in {0, 1} /\ curBit = 8
                /\ objs[curAcc].bus[Len(objs[curAcc].bus)].tag = "REPEATED START") =>
              /\ curAcc' = curAcc
              /\ accesses' = accesses
              /\ Len(objs') = Len(objs)
              /\ objs'[curAcc].bus =
                    Append(objs[curAcc].bus,
                           Event("ADDR", curByte \div 2,
                                 IF curByte % 2 = 0 THEN Write ELSE Read,
                                 SdaAt(pos) = 0))
      ]_vars

\* an access with a repeated start followed by the address phase of 0x26 read
\* has been returned, and it is the only object ever created
C3_Witness ==
    /\ pc = "returned"
    /\ Len(objs) = 1
    /\ result = <<1>>
    /\ \E i \in 1..(Len(objs[1].bus) - 1) :
          /\ objs[1].bus[i].tag = "REPEATED START"
          /\ objs[1].bus[i + 1] = Event("ADDR", 38, Read, FALSE)

\* C4: the output list changes only by a Stop condition met while Running,
\* which appends the current access and makes the decoder Idle; the list
\* returned is that list, and an access still open at the end is not in it.
C4_OnlyStopEmits ==
    [][ /\ accesses' # accesses =>
              /\ AtSample /\ state = "Running"
              /\ SclAt(pos) = 1 /\ SdaAt(pos) = 1 /\ sda_last = 0
        /\ (AtSample /\ state = "Running" /\ SclAt(pos) = 1 /\ SdaAt(pos) = 1
                /\ sda_last = 0) =>
              /\ accesses' = Append(accesses, curAcc)
              /\ state' = "Idle"
        /\ pc' = "returned" =>
              /\ result' = accesses
              /\ state = "Running" =>
                    \A i \in 1..Len(result') : result'[i] # curAcc
        /\ \A i, j \in 1..Len(accesses') : accesses'[i] = accesses'[j] => i = j
      ]_vars

\* Parse has returned one access and dropped a second one that was still open
C4_Witness ==
    /\ pc = "returned"
    /\ state = "Running"
    /\ Len(result) = 1
    /\ Len(objs) = 2
    /\ curAcc = 2

\* the file holds no sample with the clock at 1 and a data level other than
\* that of the sample before it
NoEdges ==
    \A i \in 2..Len(data) :
        IsSampleLine(i) => ~(SclAt(i) = 1 /\ SdaAt(i) # PrevSdaAt(i))

\* C5: a sample sequence without any Start/Stop edge decodes to the empty list.
C5_NoEdgesNoOutput ==
    (pc = "returned" /\ NoEdges) => result = <<>>

\* a trace with rising clock edges at both data levels but no Start/Stop edge
\* has been decoded
C5_Witness ==
    /\ pc = "returned"
    /\ NoEdges
    /\ Len(data) >= 19
    /\ \E i, j \in 2..Len(data) :
          /\ IsSampleLine(i) /\ SclAt(i) = 1 /\ SdaAt(i) = 0
          /\ IsSampleLine(j) /\ SclAt(j) = 1 /\ SdaAt(j) = 1

----------------------------------------------------------------------------
(* C6 - C10                                                                *)

\* C6: no step changes an access that is in the output list, nor removes or
\* reorders the entries of that list; the same holds for the returned list.
C6_FinalizedFrozen ==
    [][ /\ Len(accesses') >= Len(accesses)
        /\ \A i \in 1..Len(accesses) :
              /\ accesses'[i] = accesses[i]
              /\ objs'[accesses[i]] = objs[accesses[i]]
        /\ pc = "returned" =>
              /\ result' = result
              /\ \A i \in 1..Len(result) : objs'[result[i]] = objs[result[i]]
      ]_vars

\* after a first access was finalized, a second one went through Start,
\* address byte, data byte and Stop, and the first still reads as 0x26 write
C6_Witness ==
    /\ pc = "returned"
    /\ Len(result) = 2
    /\ objs[result[1]].address = 38
    /\ objs[result[1]].access_type = Write
    /\ objs[result[1]].data = <<85>>
    /\ objs[result[2]].access_type = Read
    /\ objs[result[2]].data = <<170>>
    /\ objs[result[1]].bus[Len(objs[result[1]].bus)].tag = "STOP"

\* line i is a radix line or a sample line with both levels in {0, 1}
IsBinaryLine(i) ==
    IsSampleLine(i) =>
        /\ HasLevels(i)
        /\ SclAt(i) \in {0, 1}
        /\ SdaAt(i) \in {0, 1}

\* C7: a step of the loop on a line with levels in {0, 1} is always defined:
\* it raises nothing, uses no unbound current access and moves on to the
\* next line; once the lines are exhausted Parse returns the output list; and
\* whenever the decoder is Running the current access exists.
C7_NeverRaises ==
    [][ /\ (pc = "parse" /\ pos <= Len(data) /\ IsBinaryLine(pos)) =>
              /\ pc' = "parse"
              /\ exc' = "none"
              /\ pos' = pos + 1
        /\ (pc = "parse" /\ pos > Len(data)) =>
              /\ pc' = "returned"
              /\ exc' = "none"
              /\ result' = accesses
        /\ state' = "Running" => curAcc' \in 1..Len(objs')
        /\ exc' # "UnboundLocalError"
      ]_vars

\* Parse has returned from a file of 0/1 samples that is no legal I2C trace:
\* it ends in the middle of a byte of an open transaction
C7_Witness ==
    /\ pc = "returned"
    /\ \A i \in 2..Len(data) : IsSampleLine(i) /\ IsBinaryLine(i)
    /\ state = "Running"
    /\ curBit \in 1..7
    /\ result = <<>>

\* the number of places of s at which sub occurs
CountSub(s, sub) ==
    Cardinality({i \in 1..(Len(s) - Len(sub) + 1) :
                    SubSeq(s, i, i + Len(sub) - 1) = sub})

\* C8: the text of ToString(ignoreAck = TRUE) contains neither ACK nor NACK;
\* the text of ToString(ignoreAck = FALSE) has one line per event, with
\* exactly one ACK-or-NACK token on the line of an address or data event and
\* none on the line of a Start, RepeatedStart or Stop event.
C8_RenderAck ==
    textOf # 0 =>
        LET bus   == objs[textOf].bus
            lines == SplitAt(text, "\n")
        IN  /\ textIgn =>
                  /\ CountSub(text, <<"A", "C", "K">>) = 0
                  /\ CountSub(text, <<"N", "A", "C", "K">>) = 0
            /\ ~textIgn =>
                  /\ Len(lines) = Len(bus)
                  /\ \A i \in 1..Len(bus) :
                        CountSub(lines[i], <<"A", "C", "K">>) =
                            IF bus[i].tag \in {"ADDR", "DATA"} THEN 1 ELSE 0
                  /\ CountSub(text, <<"A", "C", "K">>) =
                        Cardinality({i \in 1..Len(bus) :
                                        bus[i].tag \in {"ADDR", "DATA"}})

\* an access with an acknowledged address and a data byte that was not
\* acknowledged has been rendered with ignoreAck = TRUE
C8_Witness ==
    /\ textOf # 0
    /\ textIgn
    /\ objs[textOf].addr_ack
    /\ objs[textOf].data_ack = <<FALSE>>
    /\ Len(text) > 20

\* no header field ends with name
NoColumn(name) ==
    \A i \in 1..Len(Split(data[1])) : ~EndsWith(Strip(Split(data[1])[i]), name)

\* C9: when the SCL name or the SDA name matches no header field, Parse
\* raises the signal-name-not-found exception from the header alone: no
\* sample line has been processed, no access exists and nothing is returned.
C9_SignalNotFound ==
    [][ (pc = "find" /\ data # <<>> /\ (NoColumn(scl_name) \/ NoColumn(sda_name))) =>
              /\ pc' = "raised"
              /\ exc' \in {"SCL signal name not found", "SDA signal name not found"}
              /\ pos' = 2
              /\ objs' = <<>>
              /\ accesses' = <<>>
              /\ result' = <<>>
      ]_vars

\* the SDA name was not found in a file whose sample lines are all valid
C9_Witness ==
    /\ pc = "raised"
    /\ exc = "SDA signal name not found"
    /\ Len(data) = 4
    /\ \A i \in 2..Len(data) : \A j \in 1..3 : IsIntText(Split(data[i])[j])

\* C10: a line that is not skipped and whose SCL or SDA field is missing or
\* reads as no integer ends Parse with an exception at that line: the line is
\* not passed over and nothing is returned, whatever was decoded before.
C10_MalformedFieldFails ==
    [][ /\ (pc = "parse" /\ pos <= Len(data) /\ IsSampleLine(pos) /\ ~HasLevels(pos)) =>
              /\ pc' = "raised"
              /\ exc' \in {"ValueError", "IndexError"}
              /\ pos' = pos
              /\ result' = <<>>
        /\ pc' = "raised" => result' = <<>>
        /\ exc' = "ValueError" =>
              /\ IsSampleLine(pos)
              /\ \E j \in {sclIdx + 1, sdaIdx + 1} :
                    /\ j <= Len(Split(data[pos]))
                    /\ ~IsIntText(Split(data[pos])[j])
      ]_vars

\* Parse failed on a malformed field after one access had been completed
C10_Witness ==
    /\ pc = "raised"
    /\ exc = "ValueError"
    /\ Len(accesses) = 1
    /\ result = <<>>

----------------------------------------------------------------------------
(* C11 - C19                                                               *)

\* C11: a line that begins with Radix is passed over whatever else it holds:
\* the step changes neither state, bit count, accumulator, byte index,
\* previous levels, current access, heap nor output, and Parse goes on with
\* the next line.
C11_RadixLineSkipped ==
    [][ (pc = "parse" /\ pos <= Len(data) /\ Len(data[pos]) >= 5
            /\ SubSeq(data[pos], 1, 5) = <<"R", "a", "d", "i", "x">>) =>
              /\ pc' = "parse"
              /\ exc' = "none"
              /\ pos' = pos + 1
              /\ UNCHANGED <<state, curBit, curByte, byteNr, scl_last, sda_last,
                             curAcc, objs, accesses, result>>
      ]_vars

\* a radix line has been passed over inside an open transaction, with the
\* previous levels of the Start sample still in place
C11_Witness ==
    /\ pc = "parse"
    /\ pos > 3
    /\ Len(data[pos - 1]) >= 5
    /\ SubSeq(data[pos - 1], 1, 5) = <<"R", "a", "d", "i", "x">>
    /\ state = "Running"
    /\ scl_last = 1
    /\ sda_last = 0

\* a level read as a boolean: zero is 0, anything else is 1
Level(x) == IF x = 0 THEN 0 ELSE 1

\* C12: every sample is decoded as if each of its two fields held 1 whenever
\* it holds an integer other than 0: for the Start condition, the Stop
\* condition, the rising clock edge, the bit shifted in and the ack flag.
C12_NonZeroIsOne ==
    [][ AtSample =>
          LET c  == Level(SclAt(pos))
              d  == Level(SdaAt(pos))
              pc0 == Level(scl_last)
              pd  == Level(sda_last)
          IN  /\ (c = 1 /\ d = 0 /\ pd = 1) =>
                    /\ state' = "Running"
                    /\ curBit' = 0 /\ curByte' = 0 /\ byteNr' = 0
              /\ (c = 1 /\ d = 1 /\ pd = 0 /\ state = "Running") =>
                    /\ state' = "Idle"
                    /\ accesses' = Append(accesses, curAcc)
              /\ (c = 1 /\ pc0 = 0 /\ d = pd /\ state = "Running" /\ curBit < 8) =>
                    /\ curByte' = 2 * curByte + d
                    /\ curBit' = curBit + 1
              /\ (c = 1 /\ pc0 = 0 /\ d = pd /\ state = "Running" /\ curBit = 8) =>
                    /\ byteNr' = byteNr + 1
                    /\ objs'[curAcc].bus[Len(objs'[curAcc].bus)].ack = (d = 0)
      ]_vars

\* C13: each of the two columns is a header field whose trimmed text ends
\* with the signal name, an exact match not being needed, and of several
\* such fields the last one in header order.
C13_LastSuffixMatch ==
    [][ (pc = "find" /\ data # <<>> /\ ~NoColumn(scl_name) /\ ~NoColumn(sda_name)) =>
          LET titles == Split(data[1])
              IsCol(i, name) ==
                  /\ i \in 1..Len(titles)
                  /\ EndsWith(Strip(titles[i]), name)
                  /\ \A j \in (i + 1)..Len(titles) : ~EndsWith(Strip(titles[j]), name)
          IN  /\ pc' = "parse"
              /\ IsCol(sclIdx' + 1, scl_name)
              /\ IsCol(sdaIdx' + 1, sda_name)
      ]_vars

\* the header "scl,sda,xscl" has been read: SCL is the third column, the
\* last of two that end with the name and no exact match
C13_Witness ==
    /\ pc = "returned"
    /\ Len(Split(data[1])) = 3
    /\ Strip(Split(data[1])[1]) = scl_name
    /\ Strip(Split(data[1])[3]) # scl_name
    /\ sclIdx = 2
    /\ sdaIdx = 1

\* the last entry of a non-empty event list
LastEvent(bus) == bus[Len(bus)]

\* C14: the events of every access in the output begin with one Start, end
\* with one Stop, and hold only RepeatedStart, address and data events
\* between the two.
C14_StartToStop ==
    \A i \in 1..Len(accesses) :
        LET bus == objs[accesses[i]].bus
        IN  /\ Len(bus) >= 2
            /\ bus[1].tag = "START"
            /\ bus[Len(bus)].tag = "STOP"
            /\ \A j \in 2..(Len(bus) - 1) :
                  bus[j].tag \in {"REPEATED START", "ADDR", "DATA"}

\* an access with address, data, repeated start, address and data between
\* its Start and its Stop has been returned
C14_Witness ==
    /\ pc = "returned"
    /\ Len(result) = 1
    /\ Len(objs[result[1]].bus) = 7
    /\ [j \in 1..7 |-> objs[result[1]].bus[j].tag] =
          <<"START", "ADDR", "DATA", "REPEATED START", "ADDR", "DATA", "STOP">>

\* the sample at pos completes a byte: a rising clock edge that is neither
\* Start nor Stop, met while Running with eight bits in the accumulator
CompletesByte ==
    /\ AtSample
    /\ state = "Running"
    /\ curBit = 8
    /\ SclAt(pos) = 1
    /\ scl_last = 0
    /\ ~(SdaAt(pos) = 0 /\ sda_last = 1)
    /\ ~(SdaAt(pos) = 1 /\ sda_last = 0)

\* C15: in every access a byte event that follows a Start or a RepeatedStart
\* is an address phase and a byte event that follows a byte event is a data
\* phase; and completing a byte leaves the decoder Running with the byte
\* index one higher and bit count and accumulator at 0, whether the byte
\* was acknowledged or not.
C15_AddressThenData ==
    [][ /\ \A r \in 1..Len(objs') : \A j \in 2..Len(objs'[r].bus) :
              LET bus == objs'[r].bus
              IN  bus[j].tag \in {"ADDR", "DATA"} =>
                    /\ bus[j - 1].tag \in {"START", "REPEATED START"}
                          => bus[j].tag = "ADDR"
                    /\ bus[j - 1].tag \in {"ADDR", "DATA"}
                          => bus[j].tag = "DATA"
                    /\ bus[j - 1].tag # "STOP"
        /\ CompletesByte =>
              /\ state' = "Running"
              /\ pc' = "parse"
              /\ byteNr' = byteNr + 1
              /\ curBit' = 0
              /\ curByte' = 0
              /\ curAcc' = curAcc
              /\ Len(objs'[curAcc].bus) = Len(objs[curAcc].bus) + 1
              /\ LastEvent(objs'[curAcc].bus).tag =
                    IF byteNr = 0 THEN "ADDR" ELSE "DATA"
      ]_vars

\* an access whose address was not acknowledged, followed by a data byte
\* that was not acknowledged and one that was, has been returned
C15_Witness ==
    /\ pc = "returned"
    /\ Len(result) = 1
    /\ ~objs[result[1]].addr_ack
    /\ objs[result[1]].data_ack = <<FALSE, TRUE>>
    /\ [j \in 1..Len(objs[result[1]].bus) |-> objs[result[1]].bus[j].tag] =
          <<"START", "ADDR", "DATA", "DATA", "STOP">>

\* C16 as stated: what was recorded between a Start and a second Start that
\* came without a Stop is in no access of the output, so that no access of
\* the output holds events in front of a RepeatedStart.
C16_SecondStartDrops ==
    \A i \in 1..Len(accesses) :
        \A j \in 1..Len(objs[accesses[i]].bus) :
            objs[accesses[i]].bus[j].tag = "REPEATED START" => j = 1

\* s is a prefix of t
IsPrefix(s, t) == Len(s) <= Len(t) /\ SubSeq(t, 1, Len(s)) = s

\* C16 amended: a second Start without a Stop in between keeps the access in
\* progress: events, data and data_ack of every object only ever grow at the
\* end, the current access stays the same object while the decoder stays
\* Running, and the Stop that ends Running puts that object into the output.
C16_SecondStartKeeps ==
    [][ /\ Len(objs') >= Len(objs)
        /\ \A r \in 1..Len(objs) :
              /\ IsPrefix(objs[r].bus, objs'[r].bus)
              /\ IsPrefix(objs[r].data, objs'[r].data)
              /\ IsPrefix(objs[r].data_ack, objs'[r].data_ack)
        /\ (state = "Running" /\ state' = "Running") => curAcc' = curAcc
        /\ (state = "Running" /\ state' = "Idle") =>
              /\ accesses' = Append(accesses, curAcc)
              /\ curAcc' = curAcc
      ]_vars

\* the access returned holds, in front of its RepeatedStart, the address
\* and the data byte recorded since the first Start
C16_Witness ==
    /\ pc = "returned"
    /\ Len(result) = 1
    /\ Len(objs[result[1]].bus) >= 5
    /\ objs[result[1]].bus[2] = Event("ADDR", 38, Write, TRUE)
    /\ objs[result[1]].bus[3] = Event("DATA", 3, Write, FALSE)
    /\ objs[result[1]].bus[4].tag = "REPEATED START"
    /\ objs[result[1]].data[1] = 3

\* C17: a sample that meets the Start condition leaves bit count,
\* accumulator and byte index at 0 and the decoder Running, and records
\* nothing but the Start or RepeatedStart, also when it is a rising clock
\* edge; a sample that meets the Stop condition shifts in no bit and records
\* no byte; bits are shifted in and bytes recorded only on a rising edge
\* that is neither, while Running; and nothing is accumulated while Idle.
C17_OneBranchPerSample ==
    [][ AtSample =>
          LET c       == SclAt(pos)
              d       == SdaAt(pos)
              isStart == c = 1 /\ d = 0 /\ sda_last = 1
              isStop  == c = 1 /\ d = 1 /\ sda_last = 0
              isEdge  == c = 1 /\ scl_last = 0
          IN  /\ isStart =>
                    /\ curBit' = 0 /\ curByte' = 0 /\ byteNr' = 0
                    /\ state' = "Running"
                    /\ accesses' = accesses
                    /\ LastEvent(objs'[curAcc'].bus).tag =
                          IF state = "Idle" THEN "START" ELSE "REPEATED START"
                    /\ state = "Running" =>
                          Len(objs'[curAcc].bus) = Len(objs[curAcc].bus) + 1
              /\ isStop =>
                    /\ UNCHANGED <<curBit, curByte, byteNr>>
                    /\ state' = "Idle"
                    /\ state = "Idle" => objs' = objs
                    /\ state = "Running" =>
                          objs'[curAcc].bus =
                              Append(objs[curAcc].bus, Event("STOP", 0, Write, FALSE))
              /\ (state = "Idle" /\ ~isStart) =>
                    UNCHANGED <<curBit, curByte, byteNr, objs, accesses, state>>
              /\ (curBit' # curBit \/ curByte' # curByte \/ byteNr' # byteNr) =>
                    \/ isStart
                    \/ isEdge /\ ~isStop /\ state = "Running"
              /\ (state = "Running" /\ isEdge /\ ~isStart /\ ~isStop /\ curBit < 8) =>
                    /\ curBit' = curBit + 1
                    /\ curByte' = 2 * curByte + d
                    /\ objs' = objs
      ]_vars

\* a repeated Start came on a rising clock edge after four 1 bits had been
\* shifted in: bit count and accumulator are back at 0
C17_Witness ==
    /\ pc = "parse"
    /\ pos = 15
    /\ data[pos - 1] = Row(1, 0)
    /\ data[pos - 2] = Row(0, 1)
    /\ data[pos - 3] = Row(1, 1)
    /\ data[pos - 4] = Row(0, 1)
    /\ state = "Running"
    /\ curBit = 0
    /\ curByte = 0
    /\ byteNr = 0
    /\ LastEvent(objs[curAcc].bus).tag = "REPEATED START"
    /\ Len(objs[curAcc].bus) = 2

\* bit count, accumulator, data values and addresses are within their widths
InRange ==
    /\ curBit \in 0..8
    /\ curByte \in 0..((2 ^ curBit) - 1)
    /\ \A r \in 1..Len(objs) :
          /\ objs[r].address \in 0..127
          /\ \A j \in 1..Len(objs[r].data) : objs[r].data[j] \in 0..255
          /\ \A j \in 1..Len(objs[r].bus) :
                /\ objs[r].bus[j].tag = "DATA" => objs[r].bus[j].value \in 0..255
                /\ objs[r].bus[j].tag = "ADDR" => objs[r].bus[j].value \in 0..127

\* C18: the bit count is within 0..8, the accumulator below 2^(bit count),
\* every data value within 0..255 and every address within 0..127 when Parse
\* starts, and no step on a sample with both levels in {0, 1}, nor any step
\* that decodes no sample, leads out of these ranges.
C18_Ranges ==
    [][ /\ pc = "find" => InRange
        /\ (InRange /\ (AtSample => (SclAt(pos) \in {0, 1} /\ SdaAt(pos) \in {0, 1})))
              => InRange'
      ]_vars

\* the address byte 0xff and a data byte have been decoded from 0/1 samples:
\* address 0x7f, the largest there is
C18_Witness ==
    /\ pc = "returned"
    /\ \A i \in 2..Len(data) : IsBinaryLine(i)
    /\ Len(result) = 1
    /\ objs[result[1]].bus[2] = Event("ADDR", 127, Read, TRUE)
    /\ objs[result[1]].data = <<85>>

\* the data events of an event list, in order
DataEvents(bus) == SelectSeq(bus, LAMBDA e : e.tag = "DATA")

\* C19: in every object, at every point, address, access_type and addr_ack
\* are those of its latest address event (0, Write, FALSE while it has none),
\* and data and data_ack list the values and ack flags of its data events
\* in order.
C19_CachedFields ==
    \A r \in 1..Len(objs) :
        LET acc   == objs[r]
            addrs == {j \in 1..Len(acc.bus) : acc.bus[j].tag = "ADDR"}
            des   == DataEvents(acc.bus)
        IN  /\ IF addrs = {}
               THEN /\ acc.address = 0
                    /\ acc.access_type = Write
                    /\ acc.addr_ack = FALSE
               ELSE LET e == acc.bus[CHOOSE j \in addrs : \A k \in addrs : k <= j]
                    IN  /\ acc.address = e.value
                        /\ acc.access_type = e.op
                        /\ acc.addr_ack = e.ack
            /\ Len(acc.data) = Len(des)
            /\ Len(acc.data_ack) = Len(des)
            /\ \A j \in 1..Len(des) :
                  /\ acc.data[j] = des[j].value
                  /\ acc.data_ack[j] = des[j].ack

\* an access with two address phases, write acknowledged and then read not
\* acknowledged, and a data byte on either side of the repeated start
C19_Witness ==
    /\ pc = "returned"
    /\ Len(result) = 1
    /\ objs[result[1]].bus[2] = Event("ADDR", 38, Write, TRUE)
    /\ objs[result[1]].access_type = Read
    /\ ~objs[result[1]].addr_ack
    /\ objs[result[1]].data = <<85, 170>>
    /\ objs[result[1]].data_ack = <<TRUE, FALSE>>

----------------------------------------------------------------------------
(* C20: the slack properties after BuildXpr                                *)

\* the lines of lg that start with prefix
ResultLines(lg, prefix) == {i \in 1..Len(lg) : StartsWith(lg[i], prefix)}

\* the slack the last line of lg with that prefix carries, None when there
\* is no such line or its field is no number
SlackOf(lg, prefix) ==
    LET hits == ResultLines(lg, prefix)
        last == CHOOSE i \in hits : \A j \in hits : j <= i
    IN  IF hits = {} THEN None
        ELSE IF IsFloatText(ResultField(lg[last])) THEN <<FloatOf(ResultField(lg[last]))>>
        ELSE None

\* C20: a read of WNS returns the number of the RESULT-WNS line of the log of
\* the most recent BuildXpr when that line carries a number and raises
\* "Compilation not complete" otherwise, and a read of WHS does the same with
\* the RESULT-WHS line; the outcome depends on no other line of that log and
\* on no earlier call.
C20_OwnResultLine ==
    /\ call = "WNS" =>
          IF SlackOf(log, WnsPrefix) # None
          THEN ret = SlackOf(log, WnsPrefix) /\ vexc = "none"
          ELSE ret = None /\ vexc = "Compilation not complete, WNS not available"
    /\ call = "WHS" =>
          IF SlackOf(log, WhsPrefix) # None
          THEN ret = SlackOf(log, WhsPrefix) /\ vexc = "none"
          ELSE ret = None /\ vexc = "Compilation not complete, WHS not available"

====
